---- MODULE Spec2Model ----
(***************************************************************************)
(* A model of the radix tree of fasthttp/router (package radix, the        *)
(* revision that keeps one handler record per HTTP method in every node):  *)
(* Tree.Add, Tree.Get and Tree.FindCaseInsensitivePath with the node       *)
(* operations they call.                                                   *)
(*                                                                         *)
(* Strings are sequences of one-character strings, indexed from 0 as in Go *)
(* through Slice and At.  A pointer structure that Go mutates in place is  *)
(* a value here; every operation returns the value it leaves behind, also  *)
(* when it panics half way.                                                *)
(***************************************************************************)
EXTENDS Naturals, Integers, Sequences, FiniteSets, TLC

\* A local variable: body applied to a value that is computed once
With(value, body(_)) == body(value)

----------------------------------------------------------------------------
(* Strings *)

\* s[lo:hi] of Go
Slice(s, lo, hi) == SubSeq(s, lo + 1, hi)

\* s[lo:] of Go
SliceFrom(s, lo) == SubSeq(s, lo + 1, Len(s))

\* s[i] of Go
At(s, i) == s[i + 1]

HasPrefix(s, p) == Len(s) >= Len(p) /\ SubSeq(s, 1, Len(p)) = p

\* strings.Index(s, sub): the first 0-based offset of sub in s, or -1
RECURSIVE IndexFrom(_, _, _)
IndexFrom(s, sub, i) ==
    IF i + Len(sub) > Len(s) THEN -1
    ELSE IF Slice(s, i, i + Len(sub)) = sub THEN i
    ELSE IndexFrom(s, sub, i + 1)

Index(s, sub) == IndexFrom(s, sub, 0)

\* The bytes the model's paths and patterns are written with.
Lowers == {"a", "b"}
Uppers == {"A", "B"}
Alphabet == Lowers \cup Uppers \cup {"/", "1", "_", "x", "y", "{", "}", ":", "*", "[", "]", "+", "(", ")", "."}

\* unicode.ToLower on the model's bytes
ToLower(c) == IF c = "A" THEN "a" ELSE IF c = "B" THEN "b" ELSE c

LowerStr(s) == [i \in 1..Len(s) |-> ToLower(s[i])]

\* strings.EqualFold on the model's bytes
EqualFold(s, t) == LowerStr(s) = LowerStr(t)

----------------------------------------------------------------------------
(* Panics *)

NoErr == [panic |-> FALSE, msg |-> "", args |-> <<>>]

\* panicf(msg, args...) and panic(msg): the message format and its arguments
Panicf(msg, args) == [panic |-> TRUE, msg |-> msg, args |-> args]

----------------------------------------------------------------------------
(* Regular expressions: the subset of Go's regexp syntax the patterns of   *)
(* the model use.  A program is a sequence of items: a group opening, a    *)
(* group closing, or an atom (a set of bytes) taken once, "*" or "+".      *)
(* Groups nest and are numbered by their opening parenthesis.              *)

NoRegex == [set |-> FALSE, prog |-> <<>>, groups |-> 0]

ReItem(t, set, q) == [t |-> t, set |-> set, q |-> q]

\* The offset of the first "]" at or after i, or Len(pat) when there is none
RECURSIVE ClassEnd(_, _)
ClassEnd(pat, i) ==
    IF i >= Len(pat) THEN Len(pat)
    ELSE IF At(pat, i) = "]" THEN i
    ELSE ClassEnd(pat, i + 1)

\* The quantifier that follows an atom ending before offset j
QuantAt(pat, j) ==
    IF j < Len(pat) /\ At(pat, j) \in {"*", "+"} THEN At(pat, j) ELSE "1"

\* regexp.Compile from offset i.  A quantifier is read together with the atom
\* before it, so one met here has nothing to repeat.
RECURSIVE CompileFrom(_, _)
CompileFrom(pat, i) ==
    IF i >= Len(pat) THEN [ok |-> TRUE, prog |-> <<>>, bad |-> ""]
    ELSE LET c == At(pat, i) IN
         IF c \in {"*", "+"} THEN
            [ok |-> FALSE, prog |-> <<>>, bad |-> c]
         ELSE IF c \in {"(", ")"} THEN
            With(CompileFrom(pat, i + 1), LAMBDA rest :
            [rest EXCEPT !.prog =
                <<ReItem(IF c = "(" THEN "open" ELSE "close", {}, "1")>> \o rest.prog])
         ELSE
            LET j == IF c = "[" THEN ClassEnd(pat, i + 1) + 1 ELSE i + 1
                set == IF c = "[" THEN {At(pat, k) : k \in (i + 1)..(j - 2)}
                       ELSE IF c = "." THEN Alphabet
                       ELSE {c}
                q == QuantAt(pat, j)
            IN With(CompileFrom(pat, IF q = "1" THEN j ELSE j + 1), LAMBDA rest :
                    [rest EXCEPT !.prog = <<ReItem("atom", set, q)>> \o rest.prog])

\* The nesting depth after the first k items of a program, or -1 when a
\* group is closed that was never opened
RECURSIVE Depth(_, _)
Depth(prog, k) ==
    IF k = 0 THEN 0
    ELSE With(Depth(prog, k - 1), LAMBDA d :
              IF d = -1 THEN -1
              ELSE IF prog[k].t = "open" THEN d + 1
              ELSE IF prog[k].t = "close" THEN d - 1
              ELSE d)

\* regexp.MustCompile
MustCompile(pat) ==
    With(CompileFrom(pat, 0), LAMBDA c :
    With(IF c.ok THEN Depth(c.prog, Len(c.prog)) ELSE 0, LAMBDA depth :
    IF c.ok /\ depth = -1
    THEN [err |-> Panicf("regexp: Compile(%s): error parsing regexp: unexpected ): %s",
                         <<pat, pat>>),
          regex |-> NoRegex]
    ELSE IF c.ok /\ depth > 0
    THEN [err |-> Panicf("regexp: Compile(%s): error parsing regexp: missing closing ): %s",
                         <<pat, pat>>),
          regex |-> NoRegex]
    ELSE IF c.ok
    THEN [err |-> NoErr,
          regex |-> [set |-> TRUE, prog |-> c.prog,
                     groups |-> Cardinality({k \in 1..Len(c.prog) : c.prog[k].t = "open"})]]
    ELSE [err |-> Panicf("regexp: Compile(%s): error parsing regexp: missing argument to repetition operator: %s",
                         <<pat, <<c.bad>>>>),
          regex |-> NoRegex]))

\* How many bytes of s from offset pos on are in set
RECURSIVE MaxRun(_, _, _)
MaxRun(set, s, pos) ==
    IF pos < Len(s) /\ At(s, pos) \in set THEN 1 + MaxRun(set, s, pos + 1) ELSE 0

NoMatch == [ok |-> FALSE, lo |-> 0, hi |-> 0, caps |-> <<>>]

\* The match a backtracking matcher finds first (Go's leftmost-first rule):
\* program prog from item k on, against s from offset pos on; open is the
\* stack of the groups entered and not yet left, each with its number and
\* the offset it was entered at.
RECURSIVE MatchAt(_, _, _, _, _, _)
RECURSIVE TryCount(_, _, _, _, _, _, _, _)
MatchAt(prog, k, s, pos, open, caps) ==
    IF k > Len(prog) THEN [ok |-> TRUE, lo |-> 0, hi |-> pos, caps |-> caps]
    ELSE LET it == prog[k] IN
         IF it.t = "open"
         THEN MatchAt(prog, k + 1, s, pos,
                      Append(open, <<Cardinality({j \in 1..k : prog[j].t = "open"}), pos>>),
                      caps)
         ELSE IF it.t = "close"
         THEN MatchAt(prog, k + 1, s, pos, SubSeq(open, 1, Len(open) - 1),
                      [caps EXCEPT ![open[Len(open)][1]] = <<open[Len(open)][2], pos>>])
         ELSE IF it.q = "1"
         THEN IF pos < Len(s) /\ At(s, pos) \in it.set
              THEN MatchAt(prog, k + 1, s, pos + 1, open, caps)
              ELSE NoMatch
         ELSE TryCount(prog, k, s, pos, open, caps,
                       MaxRun(it.set, s, pos), IF it.q = "+" THEN 1 ELSE 0)

\* Greedy repetition: the longest run first, then shorter ones
TryCount(prog, k, s, pos, open, caps, n, min) ==
    IF n < min THEN NoMatch
    ELSE With(MatchAt(prog, k + 1, s, pos + n, open, caps),
              LAMBDA r : IF r.ok THEN r
                         ELSE TryCount(prog, k, s, pos, open, caps, n - 1, min))

\* (*Regexp).FindStringSubmatchIndex: the leftmost match, not anchored
RECURSIVE FindSubmatchFrom(_, _, _)
FindSubmatchFrom(re, s, start) ==
    IF start > Len(s) THEN NoMatch
    ELSE With(MatchAt(re.prog, 1, s, start, <<>>, [g \in 1..re.groups |-> <<-1, -1>>]),
              LAMBDA r : IF r.ok THEN [r EXCEPT !.lo = start]
                         ELSE FindSubmatchFrom(re, s, start + 1))

FindStringSubmatchIndex(re, s) == FindSubmatchFrom(re, s, 0)

----------------------------------------------------------------------------
(* utils *)

min(a, b) == IF a <= b THEN a ELSE b

\* The model's strings hold one-byte runes only, so rune counts are lengths.
RECURSIVE lcpFrom(_, _, _)
lcpFrom(a, b, i) ==
    IF i < min(Len(a), Len(b)) /\ At(a, i) = At(b, i) THEN lcpFrom(a, b, i + 1) ELSE i

longestCommonPrefix(a, b) == lcpFrom(a, b, 0)

\* segmentEndIndex(path) of findWildPath's file
RECURSIVE segEndFrom(_, _)
segEndFrom(path, end) ==
    IF end < Len(path) /\ At(path, end) # "/" THEN segEndFrom(path, end + 1) ELSE end

segmentEndIndex1(path) == segEndFrom(path, 0)

\* segmentEndIndex(path, includeTSR) that the node's code calls
segmentEndIndex(path, includeTSR) ==
    LET end == segEndFrom(path, 0) IN
    IF includeTSR /\ SliceFrom(path, end) = <<"/">> THEN end + 1 ELSE end

\* bufferRemoveString(buf, s): drops the last len(s) bytes of the buffer
bufferRemoveString(buf, s) == SubSeq(buf, 1, Len(buf) - Len(s))

----------------------------------------------------------------------------
(* findWildPath *)

NilWildPath ==
    [nil |-> TRUE, err |-> NoErr, path |-> <<>>, keys |-> <<>>, start |-> 0, end |-> 0,
     pType |-> "static", pattern |-> <<>>, regex |-> NoRegex]

\* strings.SplitN(s, ":", 2): the part before the first ":" and the part
\* after it (parts = 1 when there is no ":")
SplitColon(s) ==
    With(Index(s, <<":">>), LAMBDA i :
    IF i = -1 THEN [parts |-> 1, name |-> s, pattern |-> <<>>]
    ELSE [parts |-> 2, name |-> Slice(s, 0, i), pattern |-> SliceFrom(s, i + 1)])

\* The inner loop of findWildPath: from offset k of path (k > start) look for
\* the "}" that closes the unit opened at start.  found: k is that "}";
\* otherwise the scan panicked or ran off the end of the path.
RECURSIVE ScanUnit(_, _, _, _)
ScanUnit(path, k, withRegex, keys) ==
    IF k >= Len(path) THEN [found |-> FALSE, panic |-> FALSE, at |-> k]
    ELSE LET c == At(path, k) IN
         IF c = "}" THEN
            IF keys > 0 THEN ScanUnit(path, k + 1, withRegex, keys - 1)
            ELSE [found |-> TRUE, panic |-> FALSE, at |-> k]
         ELSE IF c = ":" THEN ScanUnit(path, k + 1, TRUE, keys)
         ELSE IF c = "{" THEN
            IF ~withRegex /\ keys = 0 THEN [found |-> FALSE, panic |-> TRUE, at |-> k]
            ELSE ScanUnit(path, k + 1, withRegex, keys + 1)
         ELSE ScanUnit(path, k + 1, withRegex, keys)

\* findWildPath(path, fullPath), the outer loop from offset start on
RECURSIVE findWildPathFrom(_, _, _)
findWildPathFrom(path, fullPath, start) ==
    IF start >= Len(path) THEN NilWildPath
    ELSE IF At(path, start) # "{" THEN findWildPathFrom(path, fullPath, start + 1)
    ELSE
    With(ScanUnit(path, start + 1, FALSE, 0), LAMBDA scan :
    IF scan.panic
    THEN [NilWildPath EXCEPT !.err = Panicf("the char '{' is not allowed in the param name", <<>>)]
    ELSE IF ~scan.found THEN findWildPathFrom(path, fullPath, start + 1)
    ELSE
    With(scan.at + 1, LAMBDA end :
    With(SplitColon(Slice(path, start + 1, end - 1)), LAMBDA sn :
    With(sn.parts > 1 /\ sn.pattern = <<"*">>, LAMBDA isWild :
    With(IF sn.parts > 1
         THEN (IF isWild THEN sn.pattern ELSE <<"(">> \o sn.pattern \o <<")">>)
         ELSE <<"(", ".", "*", ")">>, LAMBDA pattern0 :
    With(IF sn.parts > 1 /\ ~isWild THEN MustCompile(pattern0)
         ELSE [err |-> NoErr, regex |-> NoRegex], LAMBDA comp0 :
    With([nil |-> FALSE, err |-> NoErr,
          path |-> Slice(path, start, end), keys |-> <<sn.name>>,
          start |-> start, end |-> end,
          pType |-> IF isWild THEN "wildcard" ELSE "param",
          pattern |-> pattern0, regex |-> comp0.regex], LAMBDA wp :
    With(Slice(path, end, end + segmentEndIndex1(SliceFrom(path, end))), LAMBDA rest :
    IF Len(path) > end /\ At(path, end) = "{"
    THEN [NilWildPath EXCEPT !.err = Panicf("the wildcards must be separated by at least 1 char", <<>>)]
    ELSE IF comp0.err.panic THEN [NilWildPath EXCEPT !.err = comp0.err]
    ELSE IF Len(sn.name) = 0
    THEN [NilWildPath EXCEPT !.err =
            Panicf("wildcards must be named with a non-empty name in path '%s'", <<fullPath>>)]
    ELSE IF Len(rest) = 0 THEN wp
    ELSE
    \* Rebuild the wildpath with the rest of the segment
    With(findWildPathFrom(rest, fullPath, 0), LAMBDA wp2 :
    IF wp2.err.panic THEN [NilWildPath EXCEPT !.err = wp2.err]
    ELSE
    With(IF ~wp2.nil
         THEN [wp EXCEPT !.end = wp.end + wp2.end,
                         !.path = wp.path \o Slice(rest, 0, wp2.start) \o wp2.path,
                         !.pattern = wp.pattern \o Slice(rest, 0, wp2.start) \o wp2.pattern,
                         !.keys = wp.keys \o wp2.keys]
         ELSE [wp EXCEPT !.end = wp.end + Len(rest),
                         !.path = wp.path \o rest,
                         !.pattern = wp.pattern \o rest], LAMBDA joined :
    With(MustCompile(joined.pattern), LAMBDA comp :
    IF comp.err.panic THEN [NilWildPath EXCEPT !.err = comp.err]
    ELSE [joined EXCEPT !.regex = comp.regex])))))))))))

\* findWildPath without its check of the names: a unit with an empty name
\* counts as no unit
findWildPathUnnamed(path, fullPath) ==
    With(findWildPathFrom(path, fullPath, 0), LAMBDA wp :
    IF wp.err.msg = "wildcards must be named with a non-empty name in path '%s'"
    THEN NilWildPath ELSE wp)

findWildPath(path, fullPath) == findWildPathFrom(path, fullPath, 0)

----------------------------------------------------------------------------
(* Nodes *)

\* A nil fasthttp.RequestHandler.  A handler is named by the route it is
\* registered for.
NilHandler == <<>>

\* A nil *nodeWildcard
NoWildcard == [set |-> FALSE, path |-> <<>>, paramKey |-> <<>>, handler |-> NilHandler]

\* &nodeWildcard{path, paramKey, handler}
nodeWildcard(path, paramKey, handler) ==
    [set |-> TRUE, path |-> path, paramKey |-> paramKey, handler |-> handler]

\* &nodeHandler{tsr: tsr}
nodeHandler(tsr) == [tsr |-> tsr, handler |-> NilHandler, wildcard |-> NoWildcard]

\* A nil or empty map[string]*nodeHandler; a map is a function on the
\* methods it has a record for.
NilHandlers == <<>>

\* map[string]*nodeHandler{method: h}
OneHandler(method, h) == [m \in {method} |-> h]

\* handlers[method] = h
PutHandler(handlers, method, h) ==
    [m \in (DOMAIN handlers) \cup {method} |-> IF m = method THEN h ELSE handlers[m]]

\* handlers[method] != nil
HasHandler(handlers, method) == method \in DOMAIN handlers

\* &node{nType, path, handlers}
node(nType, path, handlers) ==
    [nType |-> nType, path |-> path, handlers |-> handlers, children |-> <<>>,
     paramKeys |-> <<>>, paramRegex |-> NoRegex]

\* newNodeAndHandler returns the new node and a pointer to one of its
\* records: the node's own ("self") or that of its "/" child ("child").
newNodeAndHandler(method, path, lastSegment) ==
    LET tsr == lastSegment /\ path # <<"/">> /\ At(path, Len(path) - 1) = "/"
        n == node("static", path, OneHandler(method, nodeHandler(tsr)))
    IN
    IF ~lastSegment \/ path = <<"/">> THEN [node |-> n, at |-> "self"]
    ELSE
    LET withChild ==
            [n EXCEPT !.path = IF tsr THEN Slice(path, 0, Len(path) - 1) ELSE path,
                      !.children = <<node("static", <<"/">>,
                                          OneHandler(method, nodeHandler(~tsr)))>>]
    IN [node |-> withChild, at |-> IF ~tsr THEN "self" ELSE "child"]

\* The record newNodeAndHandler's pointer points to; method is the one the
\* node was made for
HandlerAt(nn, method) ==
    IF nn.at = "self" THEN nn.node.handlers[method]
    ELSE nn.node.children[1].handlers[method]

\* newNodeHandler.handler = handler, seen through the node.  The write is
\* lost to the node when its map was replaced after the pointer was taken.
SetHandlerAt(nn, method, handler) ==
    IF nn.at = "self"
    THEN IF HasHandler(nn.node.handlers, method)
         THEN [nn.node EXCEPT !.handlers[method].handler = handler]
         ELSE nn.node
    ELSE [nn.node EXCEPT !.children[1].handlers[method].handler = handler]

\* (*nodeWildcard).conflict
conflict(w, path, fullPath) ==
    LET i == Index(fullPath, path) IN
    IF i < 0 THEN Panicf("runtime error: slice bounds out of range", <<>>)
    ELSE Panicf("'%s' in new path '%s' conflicts with existing wildcard '%s' in existing prefix '%s'",
                <<path, fullPath, w.path, Slice(fullPath, 0, i) \o w.path>>)

\* (*node).wildPathConflict
wildPathConflict(n, path, fullPath) ==
    LET pathSeg == Slice(path, 0, segmentEndIndex1(path))
        i == Index(fullPath, pathSeg)
    IN
    IF i < 0 THEN Panicf("runtime error: slice bounds out of range", <<>>)
    ELSE Panicf("'%s' in new path '%s' conflicts with existing wildcard '%s' in existing prefix '%s'",
                <<pathSeg, fullPath, n.path, Slice(fullPath, 0, i) \o n.path>>)

\* (node).clone: a deep copy
RECURSIVE clone(_)
clone(n) ==
    [nType |-> n.nType, path |-> n.path, handlers |-> n.handlers,
     children |-> [i \in 1..Len(n.children) |-> clone(n.children[i])],
     paramKeys |-> n.paramKeys, paramRegex |-> n.paramRegex]

\* A split whose new child keeps the kind of the node
splitKeepKind(n, i) ==
    [n EXCEPT !.path = Slice(n.path, 0, i),
              !.handlers = NilHandlers,
              !.children = <<[clone(n) EXCEPT !.path = SliceFrom(n.path, i),
                                             !.paramKeys = <<>>,
                                             !.paramRegex = NoRegex]>>]

\* (*node).split
split(n, i) ==
    LET cloneChild == [clone(n) EXCEPT !.nType = "static",
                                       !.path = SliceFrom(n.path, i),
                                       !.paramKeys = <<>>,
                                       !.paramRegex = NoRegex]
    IN [n EXCEPT !.path = Slice(n.path, 0, i),
                 !.handlers = NilHandlers,
                 !.children = <<cloneChild>>]

\* (*node).findEndIndexAndValues
findEndIndexAndValues(n, path) ==
    With(FindStringSubmatchIndex(n.paramRegex, path), LAMBDA index :
    IF ~index.ok THEN [end |-> -1, values |-> <<>>]
    ELSE [end |-> index.hi,
          values |-> [g \in 1..Len(index.caps) |->
                        Slice(path, index.caps[g][1], index.caps[g][2])]])

\* The loop of setHandler that marks the "/" children as TSR for the method
SetTSRChildren(children, method) ==
    [i \in 1..Len(children) |->
        IF children[i].path # <<"/">> THEN children[i]
        ELSE [children[i] EXCEPT !.handlers = PutHandler(@, method, nodeHandler(TRUE))]]

\* A setHandler that takes a record with tsr = true for a free one
setHandlerOverTSR(n, method, handler, fullPath) ==
    LET nHandler == IF HasHandler(n.handlers, method) THEN n.handlers[method]
                    ELSE nodeHandler(FALSE)
        withRecord == [n EXCEPT !.handlers = PutHandler(@, method, nHandler)]
    IN
    IF nHandler.handler # NilHandler
    THEN [n |-> withRecord,
          err |-> Panicf("a handle is already registered for path '%s'", <<fullPath>>)]
    ELSE [n |-> [withRecord EXCEPT !.handlers[method].handler = handler,
                                   !.children = SetTSRChildren(@, method)],
          err |-> NoErr]

\* (*node).setHandler
setHandler(n, method, handler, fullPath) ==
    LET nHandler == IF HasHandler(n.handlers, method) THEN n.handlers[method]
                    ELSE nodeHandler(FALSE)
        withRecord == [n EXCEPT !.handlers = PutHandler(@, method, nHandler)]
    IN
    IF nHandler.handler # NilHandler \/ nHandler.tsr
    THEN [n |-> withRecord,
          err |-> Panicf("a handle is already registered for path '%s'", <<fullPath>>)]
    ELSE [n |-> [withRecord EXCEPT !.handlers[method].handler = handler,
                                   !.children = SetTSRChildren(@, method)],
          err |-> NoErr]

\* The end of insert, from "newNodeHandler.handler = handler" on: the new
\* node gets the handler and becomes the last child of n.
InsertLeaf(n, nn, method, handler) ==
    LET newNode == SetHandlerAt(nn, method, handler) IN
    [n EXCEPT !.children = Append(@, newNode),
              \* Add TSR when split a edge and the remain path to insert is "/"
              !.handlers = IF newNode.path = <<"/">>
                           THEN OneHandler(method, nodeHandler(TRUE))
                           ELSE @]

\* The wildcard case of insert, after its two placement checks
InsertWildcard(n, nn, wp, method, path, fullPath, handler) ==
    With(n.path # <<"/">> /\ At(n.path, Len(n.path) - 1) = "/", LAMBDA doSplit :
    With(IF doSplit
         THEN [split(n, Len(n.path) - 1) EXCEPT
                   !.handlers = OneHandler(method, nodeHandler(TRUE))]
         ELSE n, LAMBDA parent :
    With(IF doSplit THEN parent.children[1] ELSE parent, LAMBDA target :
    With(nodeWildcard(wp.path, wp.keys[1], handler), LAMBDA newNodeWildcard :
    With(HasHandler(target.handlers, method), LAMBDA has :
    With(has /\ target.handlers[method].wildcard.set, LAMBDA clash :
    With(IF has THEN [target.handlers[method] EXCEPT !.wildcard = newNodeWildcard]
         ELSE [HandlerAt(nn, method) EXCEPT !.wildcard = newNodeWildcard], LAMBDA record :
    With(IF clash THEN target
         ELSE [target EXCEPT !.handlers = PutHandler(@, method, record)], LAMBDA target2 :
    [n |-> IF doSplit THEN [parent EXCEPT !.children[1] = target2] ELSE target2,
     err |-> IF clash THEN conflict(target.handlers[method].wildcard, path, fullPath)
             ELSE NoErr]))))))))

\* What insert leaves in n when it went on in a new last child
Appended(n, sub) == [n |-> [n EXCEPT !.children = Append(@, sub.n)], err |-> sub.err]

\* if !newNodeHandler.tsr { newNode.handlers = nil }
DropHandlers(newNode, nn, method) ==
    IF ~HandlerAt(nn, method).tsr THEN [newNode EXCEPT !.handlers = NilHandlers]
    ELSE newNode

\* (*node).insert; returns the node as the call leaves it and the panic, if any
RECURSIVE insert(_, _, _, _, _)
insert(n, method, path, fullPath, handler) ==
    With(segmentEndIndex(path, TRUE), LAMBDA end :
    With(findWildPath(path, fullPath), LAMBDA wp :
    IF wp.err.panic THEN [n |-> n, err |-> wp.err]
    ELSE IF wp.nil
    THEN [n |-> InsertLeaf(n, newNodeAndHandler(method, path, TRUE), method, handler),
          err |-> NoErr]
    ELSE
    With(IF wp.start > 0 THEN wp.start ELSE end, LAMBDA j :
    With(newNodeAndHandler(method, Slice(path, 0, j), wp.start = 0 /\ Len(path) = wp.end),
         LAMBDA nn :
    IF wp.start > 0
    THEN Appended(n, insert(DropHandlers(nn.node, nn, method), method,
                            SliceFrom(path, j), fullPath, handler))
    ELSE IF wp.pType = "wildcard"
    THEN IF Len(path) = end /\ Len(n.path) = 0
         THEN [n |-> n, err |-> Panicf("runtime error: index out of range", <<>>)]
         ELSE IF Len(path) = end /\ At(n.path, Len(n.path) - 1) # "/"
         THEN [n |-> n, err |-> Panicf("no / before wildcard in path '%s'", <<fullPath>>)]
         ELSE IF Len(path) # end
         THEN [n |-> n,
               err |-> Panicf("wildcard routes are only allowed at the end of the path in path '%s'",
                              <<fullPath>>)]
         ELSE InsertWildcard(n, nn, wp, method, path, fullPath, handler)
    ELSE
    With([nn.node EXCEPT !.nType = wp.pType,
                         !.paramKeys = wp.keys,
                         !.paramRegex = wp.regex], LAMBDA paramNode :
    IF Len(path) > wp.end /\ Len(paramNode.children) = 0
    THEN Appended(n, insert(DropHandlers(paramNode, nn, method), method,
                            SliceFrom(path, wp.end), fullPath, handler))
    ELSE [n |-> InsertLeaf(n, [nn EXCEPT !.node = paramNode], method, handler),
          err |-> NoErr])))))

\* (*node).add; addFrom is its loop over the children from the k-th on
RECURSIVE add(_, _, _, _, _)
RECURSIVE addFrom(_, _, _, _, _, _)
add(n, method, path, fullPath, handler) ==
    IF n.path = path \/ Len(path) = 0
    THEN setHandler(n, method, handler, fullPath)
    ELSE addFrom(n, 1, method, path, fullPath, handler)

\* What add leaves in n when it went on in the k-th child
Into(n, k, r) == [n |-> [n EXCEPT !.children[k] = r.n], err |-> r.err]

\* The param case of add's loop, at the k-th child
AddAtParam(n, k, i, wp, method, path, fullPath, handler) ==
    IF wp.err.panic THEN [n |-> n, err |-> wp.err]
    ELSE IF wp.nil
    THEN [n |-> n,
          err |-> Panicf("runtime error: invalid memory address or nil pointer dereference", <<>>)]
    ELSE IF /\ Len(path) = wp.end
            /\ wp.start = 0 /\ wp.pType = "param"
            /\ (HasHandler(n.children[k].handlers, method) \/ handler = NilHandler)
    THEN \* The current segment is a param and it's duplicated
         [n |-> n, err |-> wildPathConflict(n.children[k], path, fullPath)]
    ELSE IF Len(path) > i
    THEN IF n.children[k].path = wp.path
         THEN Into(n, k, add(n.children[k], method, SliceFrom(path, i), fullPath, handler))
         ELSE insert(n, method, path, fullPath, handler)
    ELSE Into(n, k, setHandler(n.children[k], method, handler, fullPath))

\* The static case of add's loop, at the k-th child split where its path
\* is longer than the common prefix
AddAtStatic(n, k, i, child, method, path, fullPath, handler) ==
    IF Len(path) > i
    THEN Into(n, k, add(child, method, SliceFrom(path, i), fullPath, handler))
    ELSE Into(n, k, setHandler(child, method, handler, fullPath))

addFrom(n, k, method, path, fullPath, handler) ==
    IF k > Len(n.children) THEN insert(n, method, path, fullPath, handler)
    ELSE
    With(longestCommonPrefix(path, n.children[k].path), LAMBDA i :
    IF i = 0 THEN addFrom(n, k + 1, method, path, fullPath, handler)
    ELSE IF n.children[k].nType = "static"
    THEN AddAtStatic(n, k, i,
                     IF Len(n.children[k].path) > i THEN split(n.children[k], i)
                     ELSE n.children[k],
                     method, path, fullPath, handler)
    ELSE IF n.children[k].nType = "param"
    THEN AddAtParam(n, k, i, findWildPath(path, fullPath), method, path, fullPath, handler)
    ELSE Into(n, k, setHandler(n.children[k], method, handler, fullPath)))

\* (*node).Less on two children
Less(a, b) ==
    LET rank(t) == CASE t = "root" -> 0 [] t = "static" -> 1 [] t = "param" -> 2 [] OTHER -> 3 IN
    IF rank(a.nType) < rank(b.nType) THEN TRUE
    ELSE IF rank(a.nType) > rank(b.nType) THEN FALSE
    ELSE Len(a.children) > Len(b.children)

\* sort.Sort on fewer than 12 elements: an insertion sort.  SinkDown moves
\* the element at j towards the front while it is Less than the one before.
RECURSIVE SinkDown(_, _)
SinkDown(c, j) ==
    IF j > 1 /\ Less(c[j], c[j - 1])
    THEN SinkDown([c EXCEPT ![j] = c[j - 1], ![j - 1] = c[j]], j - 1)
    ELSE c

RECURSIVE InsertionSort(_, _)
InsertionSort(c, i) ==
    IF i > Len(c) THEN c ELSE InsertionSort(SinkDown(c, i), i + 1)

\* A sort of the node's own children that leaves those below unsorted
sortOwnChildren(n) == [n EXCEPT !.children = InsertionSort(n.children, 2)]

\* (*node).sort
RECURSIVE sort(_)
sort(n) ==
    [n EXCEPT !.children =
        InsertionSort([i \in 1..Len(n.children) |-> sort(n.children[i])], 2)]

----------------------------------------------------------------------------
(* Tree *)

\* radix.New().root
NewRoot == node("root", <<>>, NilHandlers)

\* (*Tree).Add: the root the call leaves and the panic, if any
TreeAdd(root, method, path, handler) ==
    IF ~HasPrefix(path, <<"/">>)
    THEN [root |-> root, err |-> Panicf("path must begin with '/' in path '%s'", <<path>>)]
    ELSE IF handler = NilHandler
    THEN [root |-> root, err |-> Panicf("nil handler", <<>>)]
    ELSE
    With(longestCommonPrefix(path, root.path), LAMBDA i :
    With(add(IF i > 0 /\ Len(root.path) > i THEN split(root, i) ELSE root,
             method, IF i > 0 THEN SliceFrom(path, i) ELSE path, path, handler), LAMBDA r :
    IF r.err.panic THEN [root |-> r.n, err |-> r.err]
    ELSE IF Len(r.n.path) = 0 /\ Len(r.n.children) = 0
    THEN [root |-> r.n, err |-> Panicf("runtime error: index out of range", <<>>)]
    ELSE [root |-> sort(IF Len(r.n.path) = 0
                        THEN [r.n.children[1] EXCEPT !.nType = "root"]
                        ELSE r.n),
          err |-> NoErr]))

----------------------------------------------------------------------------
(* Lookup *)

\* MethodWild wild HTTP method
MethodWild == "*"

\* A nil *fasthttp.RequestCtx.  A context that is not nil is the map of
\* its user values, from keys to values.
NilCtx == [nil |-> TRUE, values |-> <<>>]

Ctx(values) == [nil |-> FALSE, values |-> values]

\* if ctx != nil { ctx.SetUserValue(key, value) }
SetUserValue(ctx, key, value) ==
    IF ctx.nil THEN ctx
    ELSE [ctx EXCEPT !.values =
            [k \in (DOMAIN ctx.values) \cup {key} |->
                IF k = key THEN value ELSE ctx.values[k]]]

\* What a lookup ends with: the pair it returns and the context it leaves,
\* or a panic.
Returns(h, tsr, ctx) == [h |-> h, tsr |-> tsr, ctx |-> ctx, panic |-> FALSE]

Panics(ctx) == [h |-> NilHandler, tsr |-> FALSE, ctx |-> ctx, panic |-> TRUE]

\* for i, key := range paramKeys { ctx.SetUserValue(key, values[i]) } from
\* the i-th key on; values[i] panics when there are fewer values than keys
RECURSIVE SetParams(_, _, _, _)
SetParams(ctx, paramKeys, values, i) ==
    IF ctx.nil \/ i > Len(paramKeys) THEN [ctx |-> ctx, panic |-> FALSE]
    ELSE IF i > Len(values) THEN [ctx |-> ctx, panic |-> TRUE]
    ELSE SetParams(SetUserValue(ctx, paramKeys[i], values[i]), paramKeys, values, i + 1)

\* StaticHit with the record's catch-all looked at before its tsr flag, the
\* flag returned with the catch-all's handler
StaticHitWildcardFirst(child, method, path, ctx) ==
    IF ~HasHandler(child.handlers, method) THEN Returns(NilHandler, FALSE, ctx)
    ELSE IF child.handlers[method].wildcard.set
    THEN Returns(child.handlers[method].wildcard.handler, child.handlers[method].tsr,
                 SetUserValue(ctx, child.handlers[method].wildcard.paramKey, path))
    ELSE IF child.handlers[method].tsr THEN Returns(NilHandler, TRUE, ctx)
    ELSE IF child.handlers[method].handler # NilHandler
    THEN Returns(child.handlers[method].handler, FALSE, ctx)
    ELSE [fall |-> TRUE]

\* StaticHit with the record of the wild method taken when the child has
\* no record for the method
StaticHitMethodWild(child, method, path, ctx) ==
    With(IF HasHandler(child.handlers, method) THEN method ELSE MethodWild, LAMBDA m :
    IF ~HasHandler(child.handlers, m) THEN Returns(NilHandler, FALSE, ctx)
    ELSE IF child.handlers[m].tsr THEN Returns(NilHandler, TRUE, ctx)
    ELSE IF child.handlers[m].handler # NilHandler
    THEN Returns(child.handlers[m].handler, FALSE, ctx)
    ELSE IF child.handlers[m].wildcard.set
    THEN Returns(child.handlers[m].wildcard.handler, FALSE,
                 SetUserValue(ctx, child.handlers[m].wildcard.paramKey, path))
    ELSE [fall |-> TRUE])

\* The switch on a static child's record when the path is the child's path
StaticHit(child, method, path, ctx) ==
    IF ~HasHandler(child.handlers, method) THEN Returns(NilHandler, FALSE, ctx)
    ELSE LET nHandler == child.handlers[method] IN
         IF nHandler.tsr THEN Returns(NilHandler, TRUE, ctx)
         ELSE IF nHandler.handler # NilHandler THEN Returns(nHandler.handler, FALSE, ctx)
         ELSE IF nHandler.wildcard.set
         THEN Returns(nHandler.wildcard.handler, FALSE,
                      SetUserValue(ctx, nHandler.wildcard.paramKey, path))
         ELSE [fall |-> TRUE]

\* The switch on a param child's record when the path ends with the segment
ParamHit(child, method, values, ctx) ==
    IF ~HasHandler(child.handlers, method) THEN Returns(NilHandler, FALSE, ctx)
    ELSE IF child.handlers[method].tsr THEN Returns(NilHandler, TRUE, ctx)
    ELSE With(SetParams(ctx, child.paramKeys, values, 1), LAMBDA set :
              IF set.panic THEN Panics(set.ctx)
              ELSE Returns(child.handlers[method].handler, FALSE, set.ctx))

\* The end of getFromChild: the catch-all of the node the walk stopped at
WildcardFallback(n, method, path, ctx) ==
    IF HasHandler(n.handlers, method) /\ n.handlers[method].wildcard.set
    THEN Returns(n.handlers[method].wildcard.handler, FALSE,
                 SetUserValue(ctx, n.handlers[method].wildcard.paramKey, path))
    ELSE Returns(NilHandler, FALSE, ctx)

\* ParamDescend with the child's captures bound before the subtree's answer
\* is looked at
ParamDescendBindFirst(child, sub, values) ==
    With(SetParams(sub.ctx, child.paramKeys, values, 1), LAMBDA set :
    IF sub.panic THEN sub
    ELSE IF set.panic THEN Panics(set.ctx)
    ELSE IF sub.tsr THEN Returns(NilHandler, TRUE, set.ctx)
    ELSE IF sub.h # NilHandler THEN Returns(sub.h, FALSE, set.ctx)
    ELSE [fall |-> TRUE, ctx |-> set.ctx])

\* What a param child's subtree returned, handed on by the child's branch;
\* fall: the branch returned nothing and the loop goes to the next child.
ParamDescend(child, sub, values) ==
    IF sub.panic THEN sub
    ELSE IF sub.tsr THEN Returns(NilHandler, TRUE, sub.ctx)
    ELSE IF sub.h # NilHandler
    THEN With(SetParams(sub.ctx, child.paramKeys, values, 1), LAMBDA set :
              IF set.panic THEN Panics(set.ctx) ELSE Returns(sub.h, FALSE, set.ctx))
    ELSE [fall |-> TRUE, ctx |-> sub.ctx]

\* end and values of a param child for the path: the segment, or what the
\* child's regex finds in it
ParamEnd(child, path) ==
    With(segmentEndIndex(path, FALSE), LAMBDA end :
    IF child.paramRegex.set THEN findEndIndexAndValues(child, Slice(path, 0, end))
    ELSE [end |-> end, values |-> <<Slice(path, 0, end)>>])

\* (*node).getFromChild; getFromChildAt is its loop over the children from
\* the k-th on
RECURSIVE getFromChild(_, _, _, _)
RECURSIVE getFromChildAt(_, _, _, _, _)
getFromChild(n, method, path, ctx) == getFromChildAt(n, 1, method, path, ctx)

\* The static case of the loop, at the k-th child
GetAtStatic(n, k, method, path, ctx) ==
    IF Len(path) = 0 \/ Len(n.children[k].path) = 0 THEN Panics(ctx)
    ELSE IF At(path, 0) # At(n.children[k].path, 0)
    THEN getFromChildAt(n, k + 1, method, path, ctx)
    ELSE IF Len(path) > Len(n.children[k].path)
    THEN IF Slice(path, 0, Len(n.children[k].path)) # n.children[k].path
         THEN getFromChildAt(n, k + 1, method, path, ctx)
         ELSE \* continue walk
              getFromChild(n.children[k], method,
                           SliceFrom(path, Len(n.children[k].path)), ctx)
    ELSE IF path = n.children[k].path
    THEN With(StaticHit(n.children[k], method, path, ctx), LAMBDA hit :
              IF "fall" \in DOMAIN hit THEN getFromChildAt(n, k + 1, method, path, ctx)
              ELSE hit)
    ELSE getFromChildAt(n, k + 1, method, path, ctx)

\* The param case of the loop, at the k-th child
GetAtParam(n, k, found, method, path, ctx) ==
    IF found.end = -1 THEN getFromChildAt(n, k + 1, method, path, ctx)
    ELSE IF Len(path) > found.end
    THEN With(ParamDescend(n.children[k],
                           getFromChild(n.children[k], method,
                                        SliceFrom(path, found.end), ctx),
                           found.values), LAMBDA out :
              IF "fall" \in DOMAIN out
              THEN getFromChildAt(n, k + 1, method, path, out.ctx)
              ELSE out)
    ELSE IF Len(path) = found.end
    THEN ParamHit(n.children[k], method, found.values, ctx)
    ELSE getFromChildAt(n, k + 1, method, path, ctx)

getFromChildAt(n, k, method, path, ctx) ==
    IF k > Len(n.children) THEN WildcardFallback(n, method, path, ctx)
    ELSE IF n.children[k].nType = "static" THEN GetAtStatic(n, k, method, path, ctx)
    ELSE IF n.children[k].nType = "param"
    THEN GetAtParam(n, k, ParamEnd(n.children[k], path), method, path, ctx)
    ELSE \* panic("invalid node type")
         Panics(ctx)

\* t.root.getFromMethodWild(ctx, "/"): reports no match
getFromMethodWild(root, ctx) == Returns(NilHandler, FALSE, ctx)

\* (*Tree).Get
TreeGet(root, method, path, ctx) ==
    IF Len(path) > Len(root.path)
    THEN IF Slice(path, 0, Len(root.path)) # root.path THEN Returns(NilHandler, FALSE, ctx)
         ELSE getFromChild(root, method, SliceFrom(path, Len(root.path)), ctx)
    ELSE IF path = root.path
    THEN IF ~HasHandler(root.handlers, method) THEN getFromMethodWild(root, ctx)
         ELSE LET nHandler == root.handlers[method] IN
              IF nHandler.tsr THEN Returns(NilHandler, TRUE, ctx)
              ELSE IF nHandler.handler # NilHandler
              THEN Returns(nHandler.handler, FALSE, ctx)
              ELSE IF nHandler.wildcard.set
              THEN Returns(nHandler.wildcard.handler, FALSE,
                           SetUserValue(ctx, nHandler.wildcard.paramKey, <<"/">>))
              ELSE getFromMethodWild(root, ctx)
    ELSE Returns(NilHandler, FALSE, ctx)

----------------------------------------------------------------------------
(* Case-insensitive lookup *)

\* What find and findFromChild return, with the buffer they leave
Found(found, tsr, buf) == [found |-> found, tsr |-> tsr, buf |-> buf]

\* The param child's branch of findFromChild when the path ends with the
\* segment
ParamFound(child, method, buf) ==
    IF ~HasHandler(child.handlers, method) THEN Found(FALSE, FALSE, buf)
    ELSE IF child.handlers[method].tsr THEN Found(TRUE, TRUE, buf \o <<"/">>)
    ELSE Found(TRUE, FALSE, buf)

\* (*node).find and (*node).findFromChild; findFromChildAt is the loop of
\* findFromChild over the children from the k-th on
RECURSIVE find(_, _, _, _)
RECURSIVE findFromChild(_, _, _, _)
RECURSIVE findFromChildAt(_, _, _, _, _)
find(n, method, path, buf) ==
    IF Len(path) > Len(n.path)
    THEN IF ~EqualFold(Slice(path, 0, Len(n.path)), n.path) THEN Found(FALSE, FALSE, buf)
         ELSE With(findFromChild(n, method, SliceFrom(path, Len(n.path)), buf \o n.path),
                   LAMBDA sub :
                   IF sub.found THEN sub
                   ELSE Found(FALSE, FALSE, bufferRemoveString(sub.buf, n.path)))
    ELSE IF EqualFold(path, n.path)
    THEN IF ~HasHandler(n.handlers, method) THEN Found(FALSE, FALSE, buf)
         ELSE IF n.handlers[method].tsr
         THEN IF n.path = <<"/">>
              THEN Found(TRUE, TRUE, bufferRemoveString(buf \o n.path, n.path))
              ELSE Found(TRUE, TRUE, (buf \o n.path) \o <<"/">>)
         ELSE Found(TRUE, FALSE, buf \o n.path)
    ELSE Found(FALSE, FALSE, buf)

findFromChild(n, method, path, buf) == findFromChildAt(n, 1, method, path, buf)

\* The param case of the loop, at the k-th child, with the end of the match
FindAtParam(n, k, end, method, path, buf) ==
    IF end = -1 THEN findFromChildAt(n, k + 1, method, path, buf)
    ELSE IF Len(path) > end
    THEN With(findFromChild(n.children[k], method, SliceFrom(path, end),
                            buf \o Slice(path, 0, end)), LAMBDA sub :
              IF sub.found THEN sub
              ELSE findFromChildAt(n, k + 1, method, path,
                                   bufferRemoveString(sub.buf, Slice(path, 0, end))))
    ELSE IF Len(path) = end
    THEN ParamFound(n.children[k], method, buf \o Slice(path, 0, end))
    ELSE findFromChildAt(n, k + 1, method, path,
                         bufferRemoveString(buf \o Slice(path, 0, end), Slice(path, 0, end)))

findFromChildAt(n, k, method, path, buf) ==
    IF k > Len(n.children)
    THEN IF HasHandler(n.handlers, method) /\ n.handlers[method].wildcard.set
         THEN Found(TRUE, FALSE, buf \o path)
         ELSE Found(FALSE, FALSE, buf)
    ELSE IF n.children[k].nType = "static"
    THEN With(find(n.children[k], method, path, buf), LAMBDA sub :
              IF sub.found THEN sub
              ELSE findFromChildAt(n, k + 1, method, path, sub.buf))
    ELSE IF n.children[k].nType = "param"
    THEN FindAtParam(n, k, ParamEnd(n.children[k], path).end, method, path, buf)
    ELSE \* panic("invalid node type"): no node has another type
         Found(FALSE, FALSE, buf)

\* (*Tree).FindCaseInsensitivePath: whether the lookup succeeded and the
\* buffer it leaves
FindCaseInsensitivePath(root, method, path, fixTrailingSlash, buf) ==
    With(find(root, method, path, buf), LAMBDA res :
    IF ~res.found \/ (res.tsr /\ ~fixTrailingSlash)
    THEN [ok |-> FALSE, buf |-> <<>>]
    ELSE [ok |-> TRUE, buf |-> res.buf])

----------------------------------------------------------------------------
(* The tree in use: routes are registered with Add and looked up with Get  *)
(* and FindCaseInsensitivePath.  Tree.Add is not safe for concurrent use,  *)
(* so one caller makes one call at a time and sees its outcome before the  *)
(* next call.                                                              *)

GET == "GET"
POST == "POST"
Methods == {GET, POST, MethodWild}

\* The patterns and request paths of the scenarios
Slash == <<"/">>
PathA == <<"/", "a">>
PathASlash == <<"/", "a", "/">>
PathAA == <<"/", "a", "a">>
PathAB == <<"/", "a", "b">>
PathABB == <<"/", "a", "b", "b">>
PathB == <<"/", "b">>
PathASlashA == <<"/", "a", "/", "a">>
PathASlashB == <<"/", "a", "/", "b">>
PathASlashBSlashA == <<"/", "a", "/", "b", "/", "a">>
PathUpperA == <<"/", "A">>
PathUpperAB == <<"/", "A", "B">>
Path1 == <<"/", "1">>
Path11 == <<"/", "1", "1">>
PathA1 == <<"/", "a", "1">>
Path1SlashB == <<"/", "1", "/", "b">>
ParamX == <<"/", "{", "x", "}">>
ParamY == <<"/", "{", "y", "}">>
ParamXSlash == <<"/", "{", "x", "}", "/">>
ParamXSlashB == <<"/", "{", "x", "}", "/", "b">>
ParamXCatchAllY == <<"/", "{", "x", "}", "/", "{", "y", ":", "*", "}">>
CatchAllX == <<"/", "{", "x", ":", "*", "}">>
PathACatchAllX == <<"/", "a", "/", "{", "x", ":", "*", "}">>
RegexX1 == <<"/", "{", "x", ":", "[", "1", "]", "}">>
RegexX1Plus == <<"/", "{", "x", ":", "[", "1", "]", "+", "}">>
ParamXThenCatchAllY == <<"/", "{", "x", "}", "a", "{", "y", ":", "*", "}">>
ParamXParamY == <<"/", "{", "x", "}", "{", "y", "}">>
ParamYSlash == <<"/", "{", "y", "}", "/">>
CatchAllY == <<"/", "{", "y", ":", "*", "}">>
ParamXCatchAllX == <<"/", "{", "x", "}", "/", "{", "x", ":", "*", "}">>
PathACatchAllY == <<"/", "a", "/", "{", "y", ":", "*", "}">>
PathAThenCatchAllX == <<"/", "a", "{", "x", ":", "*", "}">>
CatchAllXSlashA == <<"/", "{", "x", ":", "*", "}", "/", "a">>
EmptyName == <<"/", "{", "}">>
PathAEmptyNameRegex == <<"/", "a", "/", "{", ":", "x", "}">>
ParamXEmptyName == <<"/", "{", "x", "}", "/", "{", "}">>
RegexX1ThenRegexY1Plus ==
    <<"/", "{", "x", ":", "[", "1", "]", "}", "a", "{", "y", ":", "[", "1", "]", "+", "}">>
Path1A1 == <<"/", "1", "a", "1">>
Path1A11 == <<"/", "1", "a", "1", "1">>
PathA1A1 == <<"/", "a", "1", "a", "1">>
Path1AB == <<"/", "1", "a", "b">>
Path1A == <<"/", "1", "a">>
RegexX1Slash == <<"/", "{", "x", ":", "[", "1", "]", "}", "/">>
Path1Slash == <<"/", "1", "/">>
PathAParamX == <<"/", "a", "/", "{", "x", "}">>
ParamYSlashB == <<"/", "{", "y", "}", "/", "b">>

\* A scenario: the routes an application registers, in any order, and the
\* request paths it is asked for.
Scenario(routes, paths) == [routes |-> routes, paths |-> paths]

StaticAndParam ==
    Scenario({<<GET, PathA>>, <<GET, PathAB>>, <<GET, PathASlash>>, <<GET, ParamX>>},
             {PathA, PathASlash, PathAA, PathAB, PathB, PathUpperAB})

CatchAlls ==
    Scenario({<<GET, PathA>>, <<GET, PathAB>>, <<GET, CatchAllX>>, <<GET, PathACatchAllX>>},
             {Slash, PathA, PathASlash, PathAA, PathASlashB, PathASlashBSlashA, PathABB})

Regexes ==
    Scenario({<<GET, RegexX1>>, <<GET, ParamXThenCatchAllY>>, <<GET, ParamXSlashB>>,
              <<POST, RegexX1Plus>>, <<GET, ParamXParamY>>},
             {Path1, Path11, PathA1, PathA, PathASlashA, PathASlashB, Path1SlashB})

TwoMethods ==
    Scenario({<<GET, ParamX>>, <<POST, ParamY>>, <<POST, ParamX>>, <<GET, PathA>>,
              <<POST, PathASlash>>},
             {PathA, PathASlash, Path1, PathUpperA})

ParamSlashes ==
    Scenario({<<GET, ParamX>>, <<GET, ParamXSlash>>, <<GET, ParamXCatchAllY>>,
              <<POST, ParamXSlashB>>},
             {PathA, PathASlash, PathASlashA, PathASlashB})

\* Params of two names at one position
ParamNames ==
    Scenario({<<GET, ParamX>>, <<GET, ParamY>>, <<GET, ParamYSlash>>, <<POST, ParamX>>,
              <<GET, ParamXSlashB>>},
             {PathA, PathASlash})

\* Catch-alls of two names at one prefix, under one method and under two
CatchAllNames ==
    Scenario({<<GET, CatchAllX>>, <<GET, CatchAllY>>, <<POST, CatchAllY>>, <<GET, PathA>>},
             {Slash, PathA, PathASlashB})

CatchAllsPerMethod ==
    Scenario({<<GET, PathACatchAllX>>, <<POST, PathACatchAllY>>, <<GET, PathA>>},
             {PathA, PathASlash, PathASlashB})

CatchAllsUnderParam ==
    Scenario({<<GET, ParamXCatchAllY>>, <<GET, ParamX>>, <<GET, ParamXCatchAllX>>,
              <<POST, ParamXCatchAllX>>},
             {PathA, PathASlash, PathASlashB})

\* Catch-all units that are not where a catch-all may be
Placements ==
    Scenario({<<GET, PathAThenCatchAllX>>, <<GET, CatchAllXSlashA>>,
              <<GET, ParamXThenCatchAllY>>, <<GET, PathACatchAllX>>},
             {PathA, PathASlashB})

\* Units with no name and units with nothing between them
UnitNames ==
    Scenario({<<GET, EmptyName>>, <<GET, PathAEmptyNameRegex>>, <<GET, ParamXParamY>>,
              <<GET, ParamXEmptyName>>, <<GET, ParamX>>},
             {PathA, PathASlashA})

\* A segment of two regex units with a literal between them
MultiCapture ==
    Scenario({<<GET, RegexX1ThenRegexY1Plus>>, <<POST, RegexX1ThenRegexY1Plus>>,
              <<GET, Path1A>>},
             {Path1A1, Path1A11, PathA1A1, Path1AB, Path1A})

\* Routes of the wild method beside a route of a method
WildMethod ==
    Scenario({<<MethodWild, Slash>>, <<MethodWild, PathA>>, <<MethodWild, ParamX>>,
              <<MethodWild, CatchAllX>>, <<GET, PathAB>>},
             {Slash, PathA, PathAB, PathB})

\* A param with a regex and one without at one position
RegexSiblings ==
    Scenario({<<GET, ParamXSlash>>, <<GET, RegexX1Slash>>, <<GET, ParamXSlashB>>,
              <<POST, RegexX1Slash>>},
             {Path1Slash, PathASlash, Path1SlashB, Path1})

\* A param under a static prefix for one method and a param at the place
\* of the prefix for another
AbandonedBranch ==
    Scenario({<<GET, PathAParamX>>, <<POST, ParamYSlashB>>, <<GET, ParamYSlashB>>},
             {PathASlashB, PathASlashA, PathAB})

\* A route that ends with "/" and catch-alls after that "/"
SlashAndCatchAll ==
    Scenario({<<GET, PathASlash>>, <<GET, PathACatchAllX>>, <<POST, PathACatchAllX>>,
              <<GET, Slash>>, <<GET, CatchAllY>>},
             {Slash, PathA, PathASlash, PathASlashB})

\* A path of one method and its variant with a "/" of another, at a node
\* that a split has made
SplitThenSlash ==
    Scenario({<<GET, PathAB>>, <<GET, PathA>>, <<POST, PathASlash>>, <<POST, PathAB>>},
             {PathA, PathASlash, PathAB})

\* A catch-all at the root and a pattern with a catch-all that follows
\* literal text
CatchAllAfterText ==
    Scenario({<<GET, CatchAllX>>, <<GET, PathAThenCatchAllX>>, <<POST, PathAThenCatchAllX>>},
             {PathA, PathAB, PathASlashB})

Scenarios ==
    {CatchAllAfterText, SplitThenSlash, SlashAndCatchAll, AbandonedBranch, RegexSiblings, StaticAndParam, CatchAlls, Regexes, TwoMethods, ParamSlashes, ParamNames,
     CatchAllNames, CatchAllsPerMethod, CatchAllsUnderParam, Placements, UnitNames, MultiCapture, WildMethod}

\* What the buffer of a FindCaseInsensitivePath holds when it is called
Buffers == {<<>>, PathB}

\* How many times an application calls Add
MaxAdds == 4

VARIABLES scenario, tree, registered, nAdds, last

vars == <<scenario, tree, registered, nAdds, last>>

\* No call has returned that the caller has not dealt with
Idle == [op |-> "none"]

Init ==
    /\ scenario \in Scenarios
    /\ tree = NewRoot
    /\ registered = {}
    /\ nAdds = 0
    /\ last = Idle

\* t.Add(method, path, handler); the handler is named by its route.  A
\* panic leaves the tree as the call had changed it by then.  The caller
\* notes whether it had registered the route before (was).
Add(method, path) ==
    /\ last.op = "none"
    /\ nAdds < MaxAdds
    /\ <<method, path>> \in scenario.routes
    /\ With(TreeAdd(tree, method, path, <<method, path>>), LAMBDA r :
        /\ tree' = r.root
        /\ registered' = IF r.err.panic THEN registered
                         ELSE registered \cup {<<method, path>>}
        /\ last' = [op |-> "Add", method |-> method, path |-> path, err |-> r.err,
                     was |-> <<method, path>> \in registered])
    /\ nAdds' = nAdds + 1
    /\ UNCHANGED scenario

\* t.Get(method, path, ctx) with a nil context or one with no user values
Get(method, path, nilCtx) ==
    /\ last.op = "none"
    /\ path \in scenario.paths
    /\ With(TreeGet(tree, method, path, IF nilCtx THEN NilCtx ELSE Ctx(<<>>)), LAMBDA r :
        last' = [op |-> "Get", method |-> method, path |-> path, nilCtx |-> nilCtx,
                 h |-> r.h, tsr |-> r.tsr, panic |-> r.panic, ctx |-> r.ctx])
    /\ UNCHANGED <<scenario, tree, registered, nAdds>>

\* t.FindCaseInsensitivePath(method, path, fixTrailingSlash, buf) for a
\* request path or the text of a route's pattern, with a buffer that is
\* empty or that the caller has written to (before)
Find(method, path, fixTrailingSlash, buf) ==
    /\ last.op = "none"
    /\ path \in scenario.paths \cup {r[2] : r \in scenario.routes}
    /\ With(FindCaseInsensitivePath(tree, method, path, fixTrailingSlash, buf), LAMBDA r :
        last' = [op |-> "Find", method |-> method, path |-> path,
                 fixTrailingSlash |-> fixTrailingSlash, before |-> buf,
                 ok |-> r.ok, buf |-> r.buf])
    /\ UNCHANGED <<scenario, tree, registered, nAdds>>

\* The caller has seen the outcome of its call and goes on to the next one
Return ==
    /\ last.op # "none"
    /\ last' = Idle
    /\ UNCHANGED <<scenario, tree, registered, nAdds>>

Next ==
    \/ \E r \in scenario.routes : Add(r[1], r[2])
    \/ \E method \in Methods, path \in scenario.paths, nilCtx \in BOOLEAN :
          Get(method, path, nilCtx)
    \/ \E method \in Methods, path \in scenario.paths \cup {r[2] : r \in scenario.routes},
          fixTrailingSlash \in BOOLEAN, buf \in Buffers :
          Find(method, path, fixTrailingSlash, buf)
    \/ Return

Spec == Init /\ [][Next]_vars

----------------------------------------------------------------------------
(* The pattern grammar, as a reference for what a request path matches:    *)
(* a literal byte matches itself, {name} one non-empty segment,            *)
(* {name:regex} one segment the regex matches as a whole, and {name:*} the *)
(* rest of the path, or "/" when the path ends with the "/" before it.     *)
(* The reference reads patterns whose units each fill a whole segment.     *)

\* Every "{" of the pattern follows a "/" and every "}" ends a segment
Simple(pat) ==
    \A i \in 0..(Len(pat) - 1) :
        /\ At(pat, i) = "{" => i > 0 /\ At(pat, i - 1) = "/"
        /\ At(pat, i) = "}" => i = Len(pat) - 1 \/ At(pat, i + 1) = "/"

IsStatic(pat) == \A i \in 1..Len(pat) : pat[i] \notin {"{", "}"}

\* The offsets one byte of set after an offset of from
RefStep(set, s, from) == {p + 1 : p \in {q \in from : q < Len(s) /\ At(s, q) \in set}}

\* The offsets any number of bytes of set after an offset of from
RECURSIVE RefStar(_, _, _)
RefStar(set, s, from) ==
    IF RefStep(set, s, from) \subseteq from THEN from
    ELSE RefStar(set, s, from \cup RefStep(set, s, from))

\* The offsets at which the items of prog from the k-th on can end in s when
\* they start at an offset of from
RECURSIVE RefEnds(_, _, _, _)
RefEnds(prog, k, s, from) ==
    IF k > Len(prog) THEN from
    ELSE IF prog[k].t # "atom" THEN RefEnds(prog, k + 1, s, from)
    ELSE IF prog[k].q = "1" THEN RefEnds(prog, k + 1, s, RefStep(prog[k].set, s, from))
    ELSE IF prog[k].q = "+"
    THEN RefEnds(prog, k + 1, s, RefStar(prog[k].set, s, RefStep(prog[k].set, s, from)))
    ELSE RefEnds(prog, k + 1, s, RefStar(prog[k].set, s, from))

\* The regex matches the whole of s
WholeMatch(regex, s) ==
    With(CompileFrom(regex, 0), LAMBDA c : c.ok /\ Len(s) \in RefEnds(c.prog, 1, s, {0}))

NoRefMatch == [ok |-> FALSE, binds |-> {}]

\* The unit of pat that opens at offset i: its name, its constraint and the
\* offset after its "}"
RefUnit(pat, i) ==
    With(IndexFrom(pat, <<"}">>, i), LAMBDA close :
    With(SplitColon(Slice(pat, i + 1, close)), LAMBDA sn :
    [name |-> sn.name, regex |-> sn.pattern, end |-> close + 1,
     kind |-> IF sn.parts = 1 THEN "param"
              ELSE IF sn.pattern = <<"*">> THEN "catchall" ELSE "regex"]))

\* Whether pat from offset i on matches path from offset j on, and the
\* captures it binds, as pairs of a name and a value
RECURSIVE RefMatchFrom(_, _, _, _, _)
RefMatchUnit(pat, unit, path, j, segEnd, binds) ==
    IF unit.kind = "catchall"
    THEN IF j < Len(path)
         THEN [ok |-> TRUE, binds |-> binds \cup {<<unit.name, SliceFrom(path, j)>>}]
         ELSE [ok |-> TRUE, binds |-> binds \cup {<<unit.name, <<"/">>>>}]
    ELSE IF segEnd = j THEN NoRefMatch
    ELSE IF unit.kind = "regex" /\ ~WholeMatch(unit.regex, Slice(path, j, segEnd))
    THEN NoRefMatch
    ELSE RefMatchFrom(pat, unit.end, path, segEnd,
                      binds \cup {<<unit.name, Slice(path, j, segEnd)>>})

RefMatchFrom(pat, i, path, j, binds) ==
    IF i >= Len(pat) THEN [ok |-> j = Len(path), binds |-> binds]
    ELSE IF At(pat, i) = "{"
    THEN RefMatchUnit(pat, RefUnit(pat, i), path, j,
                      j + segEndFrom(SliceFrom(path, j), 0), binds)
    ELSE IF j < Len(path) /\ At(path, j) = At(pat, i)
    THEN RefMatchFrom(pat, i + 1, path, j + 1, binds)
    ELSE NoRefMatch

RefMatch(pat, path) == RefMatchFrom(pat, 0, path, 0, {})

\* The user values of a context, as pairs of a name and a value
CtxSet(ctx) == {<<k, ctx.values[k]>> : k \in DOMAIN ctx.values}

\* The context a Get was called with
CtxBefore(nilCtx) == IF nilCtx THEN NilCtx ELSE Ctx(<<>>)

\* Every call of Add so far returned without a panic
AllAddsSucceeded == nAdds = Cardinality(registered)

\* The last call was a Get on a tree that only successful Adds of patterns
\* the reference reads have built
GetOnSimpleTree ==
    /\ last.op = "Get"
    /\ AllAddsSucceeded
    /\ \A r \in registered : Simple(r[2])

\* The route is the only registered one whose pattern matches the path
OnlyMatch(r, path) ==
    /\ r \in registered
    /\ RefMatch(r[2], path).ok
    /\ \A q \in registered : q[2] # r[2] => ~RefMatch(q[2], path).ok

\* The last Get returned the route's handler and bound its captures
Hit(r) ==
    /\ ~last.panic
    /\ last.h = r
    /\ ~last.tsr
    /\ ~last.nilCtx => RefMatch(r[2], last.path).binds \subseteq CtxSet(last.ctx)

----------------------------------------------------------------------------
(* Claims *)

\* C1 (round trip): on a tree built by successful Adds, when the path of a
\* Get matches the pattern of a route registered under the Get's method and
\* no other registered pattern, the Get returns that route's handler with
\* tsr = false and binds every capture of the pattern to what it matched.
C1_RoundTrip ==
    GetOnSimpleTree =>
        \A r \in registered :
            (r[1] = last.method /\ OnlyMatch(r, last.path)) => Hit(r)

\* C2 (TSR symmetry): on a tree built by successful Adds of static routes,
\* a Get of p where p + "/" is registered under the method and p is not,
\* and a Get of p + "/" where p (not ending in "/") is registered under the
\* method and p + "/" is not, return (nil, true).
C2_TSRSymmetry ==
    (GetOnSimpleTree /\ \A r \in registered : IsStatic(r[2])) =>
        With(<<last.method, last.path>>, LAMBDA asked :
        With(<<last.method, last.path \o <<"/">>>>, LAMBDA withSlash :
        With(<<last.method, SubSeq(last.path, 1, Len(last.path) - 1)>>, LAMBDA withoutSlash :
        (\/ asked \notin registered /\ withSlash \in registered
         \/ /\ asked \notin registered /\ withoutSlash \in registered
            /\ Len(last.path) > 2
            /\ last.path[Len(last.path)] = "/"
            /\ last.path[Len(last.path) - 1] # "/")
        => (~last.panic /\ last.h = NilHandler /\ last.tsr))))

\* C3 (exclusivity): on every tree, also one a panicking Add has left
\* behind, a Get never returns a handler together with tsr = true.
C3_Exclusivity ==
    last.op = "Get" => ~(last.h # NilHandler /\ last.tsr)

\* A Get has answered with the trailing-slash signal
C3_Witness ==
    last.op = "Get" /\ ~last.panic /\ last.tsr /\ last.h = NilHandler

\* C4 (no residual bindings): when a Get returns a nil handler, a miss or
\* the trailing-slash signal, the context is what it was before the call.
C4_NoResidualBindings ==
    (last.op = "Get" /\ ~last.panic /\ last.h = NilHandler)
        => last.ctx = CtxBefore(last.nilCtx)

\* A Get with a context has missed after its walk went through the param
\* node of /{x}/b and came back from the node's subtree with nothing
C4_Witness ==
    /\ last.op = "Get" /\ ~last.nilCtx /\ ~last.panic
    /\ last.h = NilHandler /\ ~last.tsr
    /\ last.method = GET /\ last.path = PathASlashA
    /\ <<GET, ParamXSlashB>> \in registered

\* C5 (lookup never errors): on a tree built by successful Adds, a Get for
\* any method, path and context, nil or not, returns and does not panic.
C5_LookupNeverPanics ==
    (last.op = "Get" /\ AllAddsSucceeded) => ~last.panic

\* The pattern is the directory of the path followed by one unit that is
\* not a catch-all: a param route at the position of the path's last segment
ParamSibling(pat, path) ==
    \E i \in 1..(Len(path) - 1) :
        /\ path[i] = "/"
        /\ \A k \in (i + 1)..Len(path) : path[k] # "/"
        /\ Len(pat) > i + 1
        /\ SubSeq(pat, 1, i) = SubSeq(path, 1, i)
        /\ pat[i + 1] = "{"
        /\ RefUnit(pat, i).end = Len(pat)
        /\ RefUnit(pat, i).kind # "catchall"

\* C6 (static shadowing): when a static route and a param route that are
\* siblings at the same position under one method both match the path of a
\* Get, the Get returns the static route's handler and binds no capture.
C6_StaticShadowsParam ==
    (GetOnSimpleTree /\ IsStatic(last.path) /\ <<last.method, last.path>> \in registered)
        => \A r \in registered :
              (/\ r[1] = last.method
               /\ ParamSibling(r[2], last.path)
               /\ RefMatch(r[2], last.path).ok)
              => /\ ~last.panic
                 /\ last.h = <<last.method, last.path>>
                 /\ ~last.tsr
                 /\ CtxSet(last.ctx) = {}

\* The length of the static prefix of a pattern with a unit
PrefixLen(pat) == IndexFrom(pat, <<"{">>, 0)

\* The pattern is a static prefix followed by a catch-all unit
IsCatchAll(pat) ==
    /\ ~IsStatic(pat)
    /\ RefUnit(pat, PrefixLen(pat)).kind = "catchall"
    /\ RefUnit(pat, PrefixLen(pat)).end = Len(pat)

\* The pattern has a unit with a regex
HasRegex(pat) ==
    \E i \in 0..(Len(pat) - 1) : At(pat, i) = "{" /\ RefUnit(pat, i).kind = "regex"

\* Neither the path with a "/" added nor the path with its last "/" taken
\* away is registered under the method
NoSlashVariant(method, path) ==
    /\ <<method, path \o <<"/">>>> \notin registered
    /\ <<method, SubSeq(path, 1, Len(path) - 1)>> \notin registered

\* C7 (catch-all fallback): when the path of a Get goes on after the prefix
\* of a catch-all registered under the method and matches no other
\* registered route, nor is the slash variant of one, the Get falls back to
\* the catch-all: it returns the catch-all's handler and binds the rest of
\* the path to its key.
C7_CatchAllFallback ==
    GetOnSimpleTree =>
        \A r \in registered :
            (/\ r[1] = last.method
             /\ IsCatchAll(r[2])
             /\ OnlyMatch(r, last.path)
             /\ NoSlashVariant(last.method, last.path)
             /\ Len(last.path) > PrefixLen(r[2]))
            => Hit(r)

\* C8 (catch-all binding): with P/{name:*} registered under the method and
\* no other registered route matching the path or being its slash variant,
\* a Get of P/ followed by a non-empty r returns the catch-all's handler
\* with name bound to r, and a Get of P/ returns it with name bound to "/".
C8_CatchAllBinding ==
    (GetOnSimpleTree /\ ~last.nilCtx) =>
        \A r \in registered :
            (/\ r[1] = last.method
             /\ IsCatchAll(r[2])
             /\ OnlyMatch(r, last.path)
             /\ NoSlashVariant(last.method, last.path))
            => With(RefUnit(r[2], PrefixLen(r[2])).name, LAMBDA name :
                    /\ ~last.panic
                    /\ last.h = r
                    /\ name \in DOMAIN last.ctx.values
                    /\ last.ctx.values[name] =
                           IF Len(last.path) > PrefixLen(r[2])
                           THEN SliceFrom(last.path, PrefixLen(r[2]))
                           ELSE <<"/">>)

\* C9 (regex anchoring): a Get returns the handler of a route with a
\* {name:regex} unit only when the regex matches the whole of the path's
\* segment, and the value it binds to name is the entire segment.
C9_RegexAnchored ==
    (/\ last.op = "Get" /\ ~last.panic /\ last.h # NilHandler
     /\ Simple(last.h[2]) /\ HasRegex(last.h[2]))
    => /\ RefMatch(last.h[2], last.path).ok
       /\ ~last.nilCtx => RefMatch(last.h[2], last.path).binds \subseteq CtxSet(last.ctx)

\* C10 (case-insensitive consistency): on a tree built by successful Adds,
\* FindCaseInsensitivePath for the text of a pattern registered under the
\* method, a text the pattern itself matches, with an empty buffer and
\* fixTrailingSlash true or false, returns true and leaves the text in buf.
C10_FindRegisteredPattern ==
    (/\ last.op = "Find"
     /\ last.before = <<>>
     /\ AllAddsSucceeded
     /\ <<last.method, last.path>> \in registered
     /\ Simple(last.path)
     /\ RefMatch(last.path, last.path).ok)
    => (last.ok /\ last.buf = last.path)

\* The routes that were registered when the last Add was called
RegisteredBefore ==
    IF last.was THEN registered ELSE registered \ {<<last.method, last.path>>}

\* C11 (duplicate registration): an Add of a route that is registered, with
\* the same method and the same pattern of any kind, panics with "a handle
\* is already registered for path" and the full pattern.
C11_DuplicatePanics ==
    (last.op = "Add" /\ last.was)
    => last.err = Panicf("a handle is already registered for path '%s'", <<last.path>>)

\* The text of the first unit of a pattern
UnitText(pat) == Slice(pat, PrefixLen(pat), RefUnit(pat, PrefixLen(pat)).end)

\* The pattern is a static prefix that ends with "/", one {name} unit with
\* no regex, and the tail
PrefixParamTail(pat, tail) ==
    /\ ~IsStatic(pat)
    /\ At(pat, PrefixLen(pat) - 1) = "/"
    /\ RefUnit(pat, PrefixLen(pat)).kind = "param"
    /\ RefUnit(pat, PrefixLen(pat)).name # <<>>
    /\ SliceFrom(pat, RefUnit(pat, PrefixLen(pat)).end) = tail

\* The two patterns have the same static prefix and first units that differ
SamePositionOtherUnit(old, new) ==
    /\ Slice(old, 0, PrefixLen(old)) = Slice(new, 0, PrefixLen(new))
    /\ UnitText(old) # UnitText(new)

\* The panic of conflict and wildPathConflict for a unit of the new
\* pattern against the unit that ends the registered pattern
ConflictPanic(unit, new, oldUnit, old) ==
    Panicf("'%s' in new path '%s' conflicts with existing wildcard '%s' in existing prefix '%s'",
           <<unit, new, oldUnit, old>>)

\* C12 (param-name conflict): when a pattern that ends with a param {a} is
\* registered under the method, an Add under that method of a pattern with
\* the same prefix that ends with a param {b} of another name, or with {b}
\* and a trailing "/", panics with the conflict of {b} with {a}.
C12_ParamNameConflict ==
    last.op = "Add" =>
        \A old \in RegisteredBefore :
            (/\ old[1] = last.method
             /\ PrefixParamTail(old[2], <<>>)
             /\ PrefixParamTail(last.path, <<>>) \/ PrefixParamTail(last.path, <<"/">>)
             /\ SamePositionOtherUnit(old[2], last.path))
            => last.err = ConflictPanic(UnitText(last.path), last.path,
                                        UnitText(old[2]), old[2])

\* The catch-alls a tree holds for a method, each with the pattern text of
\* its unit, its capture name and its handler
RECURSIVE WildcardsOf(_, _)
WildcardsOf(n, method) ==
    (IF HasHandler(n.handlers, method) /\ n.handlers[method].wildcard.set
     THEN {<<n.handlers[method].wildcard.path, n.handlers[method].wildcard.paramKey,
             n.handlers[method].wildcard.handler>>}
     ELSE {})
    \cup UNION {WildcardsOf(n.children[k], method) : k \in 1..Len(n.children)}

\* The offset of the last unit of a pattern
LastUnit(pat) ==
    CHOOSE i \in 0..(Len(pat) - 1) :
        At(pat, i) = "{" /\ \A k \in (i + 1)..(Len(pat) - 1) : At(pat, k) # "{"

\* The pattern is P/{name:*}, where the prefix P may have units of its own
EndsWithCatchAll(pat) ==
    /\ ~IsStatic(pat)
    /\ At(pat, LastUnit(pat) - 1) = "/"
    /\ RefUnit(pat, LastUnit(pat)).kind = "catchall"
    /\ RefUnit(pat, LastUnit(pat)).name # <<>>
    /\ RefUnit(pat, LastUnit(pat)).end = Len(pat)

\* C13 (catch-all name conflict): when P/{a:*} is registered under the
\* method, an Add under that method of P/{b:*} with another name panics
\* with the conflict of {b:*} with {a:*}, and the tree still holds the
\* catch-all {a:*} with its capture name and its handler.
C13_CatchAllNameConflict ==
    last.op = "Add" =>
        \A old \in RegisteredBefore :
            (/\ old[1] = last.method
             /\ EndsWithCatchAll(old[2])
             /\ EndsWithCatchAll(last.path)
             /\ Slice(old[2], 0, LastUnit(old[2])) = Slice(last.path, 0, LastUnit(last.path))
             /\ old[2] # last.path)
            => /\ last.err = ConflictPanic(SliceFrom(last.path, LastUnit(last.path)),
                                           last.path,
                                           SliceFrom(old[2], LastUnit(old[2])), old[2])
               /\ <<SliceFrom(old[2], LastUnit(old[2])),
                     RefUnit(old[2], LastUnit(old[2])).name, old>>
                      \in WildcardsOf(tree, last.method)

\* A catch-all unit opens at offset i of the pattern
CatchAllAt(pat, i) == At(pat, i) = "{" /\ RefUnit(pat, i).kind = "catchall"

\* The pattern has a catch-all unit that does not end it or does not
\* follow a "/"
MisplacedCatchAll(pat) ==
    \E i \in 0..(Len(pat) - 1) :
        /\ CatchAllAt(pat, i)
        /\ RefUnit(pat, i).end < Len(pat) \/ At(pat, i - 1) # "/"

\* C14 (catch-all placement): an Add of a pattern with a {name:*} unit that
\* something follows panics with "wildcard routes are only allowed at the
\* end of the path", and an Add of a pattern that ends with a {name:*} unit
\* that does not follow a "/" panics with "no / before wildcard"; so an Add
\* returns only when the unit ends the pattern and follows a "/".
C14_CatchAllPlacement ==
    last.op = "Add" =>
        \A i \in 0..(Len(last.path) - 1) :
            CatchAllAt(last.path, i) =>
                /\ RefUnit(last.path, i).end < Len(last.path) =>
                      last.err = Panicf("wildcard routes are only allowed at the end of the path in path '%s'",
                                        <<last.path>>)
                /\ (RefUnit(last.path, i).end = Len(last.path) /\ At(last.path, i - 1) # "/") =>
                      last.err = Panicf("no / before wildcard in path '%s'", <<last.path>>)

\* The pattern has a unit with an empty name
EmptyNameUnit(pat) ==
    \E i \in 0..(Len(pat) - 1) : At(pat, i) = "{" /\ RefUnit(pat, i).name = <<>>

\* The pattern has two units with nothing between them
AdjacentUnits(pat) ==
    \E i \in 0..(Len(pat) - 2) : At(pat, i) = "}" /\ At(pat, i + 1) = "{"

RECURSIVE Fill(_, _, _)
Fill(pat, i, values) ==
    IF i >= Len(pat) THEN <<>>
    ELSE IF At(pat, i) = "{"
    THEN (IF RefUnit(pat, i).name \in DOMAIN values THEN values[RefUnit(pat, i).name]
          ELSE <<>>)
         \o Fill(pat, RefUnit(pat, i).end, values)
    ELSE <<At(pat, i)>> \o Fill(pat, i + 1, values)

\* Every unit of the pattern has a regex, and some unit shares its segment
\* with literal text or another unit
MultiCaptureSegment(pat) ==
    /\ ~IsStatic(pat)
    /\ ~Simple(pat)
    /\ \A i \in 0..(Len(pat) - 1) : At(pat, i) = "{" => RefUnit(pat, i).kind = "regex"

\* C16 (multi-capture segment): a Get returns the handler of a route whose
\* segment combines literal text with {name:regex} units only for a path
\* that is the pattern with each unit replaced by a text its regex matches
\* as a whole, and it binds each unit's name to that text.
C16_MultiCapture ==
    (/\ last.op = "Get" /\ ~last.panic /\ ~last.nilCtx /\ last.h # NilHandler
     /\ MultiCaptureSegment(last.h[2]))
    => /\ Fill(last.h[2], 0, last.ctx.values) = last.path
       /\ \A i \in 0..(Len(last.h[2]) - 1) :
             At(last.h[2], i) = "{" =>
                /\ RefUnit(last.h[2], i).name \in DOMAIN last.ctx.values
                /\ WholeMatch(RefUnit(last.h[2], i).regex,
                              last.ctx.values[RefUnit(last.h[2], i).name])

\* q is p with one "/" more or one "/" less at its end, whatever the case
\* of its letters
SlashVariant(q, p) ==
    \/ LowerStr(q) = LowerStr(p) \o <<"/">>
    \/ LowerStr(q) \o <<"/">> = LowerStr(p)

\* C17 (TSR fixup in reconstruction): on a tree built by successful Adds of
\* static routes, when the path of a FindCaseInsensitivePath is a
\* registered path of the method with one "/" more or less at its end,
\* whatever the case, and is no registered path of the method itself, the
\* call with an empty buffer returns true with the registered path in buf when fixTrailingSlash
\* is true, and false when it is false.
C17_FindFixesTrailingSlash ==
    (/\ last.op = "Find"
     /\ last.before = <<>>
     /\ AllAddsSucceeded
     /\ \A r \in registered : IsStatic(r[2])
     /\ \A r \in registered : r[1] = last.method => LowerStr(r[2]) # LowerStr(last.path))
    => \A r \in registered :
          (r[1] = last.method /\ SlashVariant(last.path, r[2]))
          => IF last.fixTrailingSlash THEN last.ok /\ last.buf = r[2] ELSE ~last.ok

\* The two routes are catch-alls of different names at one prefix under
\* different methods
PerMethodCatchAlls(r, q) ==
    /\ r[1] # q[1]
    /\ EndsWithCatchAll(r[2]) /\ EndsWithCatchAll(q[2])
    /\ Slice(r[2], 0, LastUnit(r[2])) = Slice(q[2], 0, LastUnit(q[2]))
    /\ RefUnit(r[2], LastUnit(r[2])).name # RefUnit(q[2], LastUnit(q[2])).name

\* No other registered pattern goes on after the prefix of the catch-all
\* route r, except catch-alls at that prefix under other methods
AloneUnderPrefix(r) ==
    \A q \in registered :
        \/ q = r
        \/ ~HasPrefix(q[2], Slice(r[2], 0, LastUnit(r[2])))
        \/ PerMethodCatchAlls(r, q)

\* C18 (per-method catch-alls): an Add of P/{a:*} under a method, when
\* P/{b:*} is registered under another method and the method has no
\* catch-all at P, does not panic; and on a tree built by successful Adds
\* that holds both, a Get under the method of a path that goes on after
\* P/, where no other route does, returns the handler of P/{a:*} and binds
\* a to the rest of the path, and nothing else.
C18_PerMethodCatchAlls ==
    /\ (last.op = "Add" /\ ~last.was /\ Simple(last.path) /\ EndsWithCatchAll(last.path))
       => \A q \in RegisteredBefore :
             (/\ PerMethodCatchAlls(<<last.method, last.path>>, q)
              /\ \A o \in RegisteredBefore :
                    (o[1] = last.method /\ EndsWithCatchAll(o[2]))
                    => Slice(o[2], 0, LastUnit(o[2])) # Slice(q[2], 0, LastUnit(q[2])))
             => ~last.err.panic
    /\ (GetOnSimpleTree /\ ~last.nilCtx)
       => \A r \in registered, q \in registered :
             (/\ r[1] = last.method
              /\ PerMethodCatchAlls(r, q)
              /\ AloneUnderPrefix(r)
              /\ Len(last.path) > LastUnit(r[2])
              /\ HasPrefix(last.path, Slice(r[2], 0, LastUnit(r[2]))))
             => /\ ~last.panic
                /\ last.h = r
                /\ ~last.tsr
                /\ CtxSet(last.ctx) =
                      {<<RefUnit(r[2], LastUnit(r[2])).name,
                         SliceFrom(last.path, LastUnit(r[2]))>>}

C20_RoutesPersist ==
    (/\ last.op = "Get"
     /\ AllAddsSucceeded
     /\ IsStatic(last.path)
     /\ <<last.method, last.path>> \in registered)
    => (~last.panic /\ last.h = <<last.method, last.path>> /\ ~last.tsr)

\* The place of a kind in the order of kinds
KindOrder(nType) ==
    CASE nType = "root" -> 0 [] nType = "static" -> 1 [] nType = "param" -> 2 [] OTHER -> 3

\* The first of two siblings may stand before the second: its kind is
\* earlier, or the kinds are the same and it has no fewer children
InOrder(a, b) ==
    \/ KindOrder(a.nType) < KindOrder(b.nType)
    \/ KindOrder(a.nType) = KindOrder(b.nType) /\ Len(a.children) >= Len(b.children)

\* The children of n and of every node below it are in order
RECURSIVE ChildrenInOrder(_)
ChildrenInOrder(n) ==
    /\ \A i \in 1..Len(n.children), j \in 1..Len(n.children) :
          i < j => InOrder(n.children[i], n.children[j])
    /\ \A i \in 1..Len(n.children) : ChildrenInOrder(n.children[i])

\* C21 (child sort order): after every Add that returns without a panic,
\* the children of every node of the tree are ordered by kind, static
\* before param, and within a kind by number of children, larger first.
C21_ChildSortOrder ==
    (last.op = "Add" /\ ~last.err.panic) => ChildrenInOrder(tree)

\* n and the nodes below it
RECURSIVE Nodes(_)
Nodes(n) == {n} \cup UNION {Nodes(n.children[i]) : i \in 1..Len(n.children)}

\* An Add has returned and left a static child before a param child, and
\* a child that has children before one of its kind that has fewer
C21_Witness ==
    /\ last.op = "Add" /\ ~last.err.panic
    /\ \E n \in Nodes(tree) : \E i \in 1..Len(n.children), j \in 1..Len(n.children) :
          i < j /\ n.children[i].nType = "static" /\ n.children[j].nType = "param"
    /\ \E n \in Nodes(tree) : \E i \in 1..Len(n.children), j \in 1..Len(n.children) :
          /\ i < j
          /\ n.children[i].nType = n.children[j].nType
          /\ Len(n.children[i].children) > Len(n.children[j].children)

\* Whether p is a prefix of every pattern of the set
CommonPrefix(p, pats) == \A q \in pats : HasPrefix(q, p)

\* The root is the one node of kind root, its path is not empty and is
\* the longest text that every pattern of the set starts with
RootInvariant(pats) ==
    /\ tree.nType = "root"
    /\ \A n \in Nodes(tree) : n.nType = "root" => n = tree
    /\ tree.path # <<>>
    /\ CommonPrefix(tree.path, pats)
    /\ \A q \in pats : \A k \in 0..Len(q) :
          CommonPrefix(Slice(q, 0, k), pats) => k <= Len(tree.path)

StaticPrefix(pat) ==
    IF Index(pat, <<"{">>) < 0 THEN pat ELSE Slice(pat, 0, Index(pat, <<"{">>))

\* The static prefix without its last "/" when a catch-all follows that
\* "/" or the pattern ends with it, and the "/" is not the whole prefix
Trunk(pat) ==
    With(StaticPrefix(pat), LAMBDA sp :
    IF /\ sp # <<"/">>
       /\ At(sp, Len(sp) - 1) = "/"
       /\ (sp = pat \/ RefUnit(pat, Len(sp)).kind = "catchall")
    THEN Slice(sp, 0, Len(sp) - 1)
    ELSE sp)

RegexBesidePlain(pat, plain) ==
    \E i \in 0..(Len(pat) - 1) :
        /\ At(pat, i) = "{"
        /\ Len(plain) > i
        /\ SubSeq(pat, 1, i + 1) = SubSeq(plain, 1, i + 1)
        /\ RefUnit(pat, i).kind = "regex"
        /\ RefUnit(plain, i).kind = "param"

\* C23 (regex-first tie-break): on a tree built by successful Adds, in
\* whatever order, when a route whose param has a regex and a route whose
\* param at the same position has none are registered under the method of
\* a Get and the path matches the route with the regex, the Get returns
\* that route's handler and binds its captures.
C23_RegexFirst ==
    GetOnSimpleTree =>
        \A r \in registered, q \in registered :
            (/\ r[1] = last.method /\ q[1] = last.method
             /\ RegexBesidePlain(r[2], q[2])
             /\ RefMatch(r[2], last.path).ok)
            => Hit(r)

\* The text is the path in some case, or the path with one "/" more or
\* less at its end: what a reconstruction of the path can be
Reconstructs(q, path) == EqualFold(q, path) \/ SlashVariant(q, path)

\* C24 (no buffer residue): a FindCaseInsensitivePath that returns false
\* leaves the buffer holding what it held when the call was made, and one
\* that returns true leaves what it held followed by one reconstruction of
\* the path and nothing else.
C24_NoBufferResidue ==
    last.op = "Find"
    => IF ~last.ok THEN last.buf = last.before
       ELSE /\ HasPrefix(last.buf, last.before)
            /\ Reconstructs(SliceFrom(last.buf, Len(last.before)), last.path)

\* n and the nodes below it, each with the text of the paths from the
\* root to it, when the text before n is prefix
RECURSIVE Located(_, _)
Located(n, prefix) ==
    {[node |-> n, at |-> prefix \o n.path]}
    \cup UNION {Located(n.children[i], prefix \o n.path) : i \in 1..Len(n.children)}

\* C25 (method-record invariant): in every tree the calls can build, no
\* record of a node for a method has both a handler and tsr = true; and a
\* Get of the exact path of a node whose record for the method has both a
\* handler and a catch-all returns that handler.
C25_MethodRecords ==
    /\ \A n \in Nodes(tree) : \A m \in DOMAIN n.handlers :
          ~(n.handlers[m].handler # NilHandler /\ n.handlers[m].tsr)
    /\ last.op = "Get"
       => \A ln \in Located(tree, <<>>) :
             (/\ ln.at = last.path
              /\ HasHandler(ln.node.handlers, last.method)
              /\ ln.node.handlers[last.method].handler # NilHandler
              /\ ln.node.handlers[last.method].wildcard.set)
             => /\ ~last.panic
                /\ last.h = ln.node.handlers[last.method].handler
                /\ ~last.tsr

\* A Get of "/a/" has returned on a tree whose node "/" below "/a" holds
\* the handler of /a/ and the catch-all of /a/{x:*} in its record for GET
C25_Witness ==
    /\ last.op = "Get" /\ last.method = GET /\ last.path = PathASlash
    /\ \E ln \in Located(tree, <<>>) :
          /\ ln.at = PathASlash
          /\ ln.node # tree
          /\ HasHandler(ln.node.handlers, GET)
          /\ ln.node.handlers[GET].handler = <<GET, PathASlash>>
          /\ ln.node.handlers[GET].wildcard.set
          /\ ln.node.handlers[GET].wildcard.handler = <<GET, PathACatchAllX>>
    /\ last.h = <<GET, PathASlash>>

\* What a Get of the path under the method returns on the tree t, with the
\* context it leaves
Lookup(t, method, path) == TreeGet(t, method, path, Ctx(<<>>))

\* C26 (method isolation): an Add under a method other than the wild one
\* that returns without a panic leaves the result of every Get under
\* another such method as it was: the handler, tsr and the bindings.
C26_MethodIsolation ==
    [][(last'.op = "Add" /\ ~last'.err.panic /\ last'.method # MethodWild)
       => \A m \in Methods \ {MethodWild, last'.method} : \A path \in scenario.paths :
             Lookup(tree', m, path) = Lookup(tree, m, path)]_vars

\* The orders in which the routes of a set can be added
RECURSIVE Orders(_)
Orders(routes) ==
    IF routes = {} THEN {<<>>}
    ELSE UNION {{<<r>> \o rest : rest \in Orders(routes \ {r})} : r \in routes}

\* The tree that Adds of the routes in the given order build from root,
\* and whether all of them returned without a panic
RECURSIVE Built(_, _)
Built(root, order) ==
    IF order = <<>> THEN [root |-> root, ok |-> TRUE]
    ELSE With(TreeAdd(root, order[1][1], order[1][2], order[1]), LAMBDA r :
         IF r.err.panic THEN [root |-> r.root, ok |-> FALSE]
         ELSE Built(r.root, Tail(order)))

\* C27 (insertion-order independence): when the Adds of a set of routes
\* all return without a panic in two orders, the two trees give the same
\* result, handler, tsr and bindings, for a Get of every method and path.
C27_OrderIndependence ==
    (last.op = "Add" /\ ~last.err.panic /\ AllAddsSucceeded)
    => \A order \in Orders(registered) :
          Built(NewRoot, order).ok
          => \A m \in Methods : \A path \in scenario.paths :
                Lookup(Built(NewRoot, order).root, m, path) = Lookup(tree, m, path)

\* C28 (a failed Add is a no-op for lookups): an Add that panics leaves
\* every Get and every FindCaseInsensitivePath with the result it had
\* before the call.
C28_FailedAddIsNoOp ==
    [][(last'.op = "Add" /\ last'.err.panic)
       => /\ \A m \in Methods : \A path \in scenario.paths :
               Lookup(tree', m, path) = Lookup(tree, m, path)
          /\ \A m \in Methods :
             \A path \in scenario.paths \cup {r[2] : r \in scenario.routes} :
             \A fix \in BOOLEAN :
               FindCaseInsensitivePath(tree', m, path, fix, <<>>)
                 = FindCaseInsensitivePath(tree, m, path, fix, <<>>)]_vars

\* C29 (reconstruction agrees with lookup): when FindCaseInsensitivePath
\* with an empty buffer returns true, a Get under the same method of the
\* path it left in the buffer returns a handler.
C29_FoundPathResolves ==
    (last.op = "Find" /\ last.before = <<>> /\ last.ok)
    => /\ ~Lookup(tree, last.method, last.buf).panic
       /\ Lookup(tree, last.method, last.buf).h # NilHandler

\* One of the two static paths is the other with a "/" added; neither is "/"
SlashPair(p, q) ==
    /\ IsStatic(p) /\ IsStatic(q)
    /\ p # Slash /\ q # Slash
    /\ (q = p \o <<"/">> \/ p = q \o <<"/">>)

\* C30 (a path and its trailing-slash variant exclude each other): an Add
\* of a static path whose variant with a "/" more or less at its end is
\* registered under the method panics with "a handle is already registered
\* for path" and the new path, whatever else has been added.
C30_SlashVariantPanics ==
    last.op = "Add"
    => \A old \in RegisteredBefore :
          (old[1] = last.method /\ SlashPair(old[2], last.path))
          => last.err = Panicf("a handle is already registered for path '%s'",
                               <<last.path>>)

====
